---- MODULE Spec2Model ----
(***************************************************************************)
(* SpenderSentry (src/spendersentry.py): audit of the ERC-20 approvals of  *)
(* one owner.  main scans the Approval logs in chunks (scan_approvals),    *)
(* re-reads every (token, spender) pair live (build_report), scores the    *)
(* risk (calc_risk), sorts and prints.                                     *)
(*                                                                         *)
(* Python integers are unbounded and the values handled are uint256, so    *)
(* they are kept as 16 little-endian limbs of 16 bits (TLC's integers are  *)
(* 32 bits wide): 2^255 and 2^256-1 are represented exactly.               *)
(***************************************************************************)
EXTENDS Integers, Sequences, FiniteSets, TLC

VARIABLES
    pc,          \* position of the single thread of control
    args,        \* the parsed command line: from_block, to_block, step, json_path
    chain,       \* the node's Approval logs, in (block, log index) order
    latest,      \* scan_approvals: local latest
    start,       \* scan_approvals: local start
    cur,         \* chunk_ranges: local cur of the generator driven by the scan
    pairs,       \* scan_approvals: local dict pairs, in insertion order
    queries,     \* the eth_getLogs requests issued so far, with their outcome
    main_pairs,  \* main: local pairs (<<>> until scan_approvals has returned)
    meta,        \* build_report: local dict meta (token -> (symbol, decimals))
    rows,        \* build_report: local list rows
    idx,         \* build_report: position of the for loop in pairs.items()
    calls,       \* the eth_call requests issued so far, with their answers
    out,         \* what main has printed / written
    gen,         \* a chunk_ranges generator run on its own
    risk_io      \* a calc_risk call on its own

vars == <<pc, args, chain, latest, start, cur, pairs, queries, main_pairs,
          meta, rows, idx, calls, out, gen, risk_io>>

scanVars   == <<latest, start, cur, pairs, queries>>
reportVars == <<meta, rows, idx, calls>>

-----------------------------------------------------------------------------
(* Bounds of the model *)

\* highest block number of the modelled chain (the node's head)
MaxBlock == 2
\* most Approval logs on the chain when scan_approvals is checked on its own
MaxLogs == 2
\* most Approval logs on the chain when the whole of main is run
MaxMainLogs == 2
\* largest --step
MaxStep == 2
\* most (token, spender) pairs handed to build_report when checked on its own
MaxPairs == 2
\* largest end and step of a chunk_ranges generator run on its own
MaxEnd == 5

-----------------------------------------------------------------------------
(* Optional[int]: None is the empty sequence, a value v is <<v>> *)
None == <<>>
Some(v) == <<v>>

Min(a, b) == IF a <= b THEN a ELSE b
Max(a, b) == IF a >= b THEN a ELSE b

-----------------------------------------------------------------------------
(* uint256 / Python int arithmetic on limbs *)

LimbBits == 16
Base == 2 ^ LimbBits
NLimbs == 256 \div LimbBits

BigZero == [i \in 1..NLimbs |-> 0]
\* a small integer 0 <= n < Base^2
BigOf(n) == [i \in 1..NLimbs |-> IF i = 1 THEN n % Base
                                 ELSE IF i = 2 THEN n \div Base ELSE 0]
\* 2^256 - 1
BigMax == [i \in 1..NLimbs |-> Base - 1]

\* the value of limb i of x, 0 beyond its length
Limb(x, i) == IF i <= Len(x) THEN x[i] ELSE 0

\* -1, 0, 1 as a < b, a = b, a > b: the highest limb that differs decides
CmpLimbs(a, b) ==
    LET L    == Max(Len(a), Len(b))
        diff == {i \in 1..L : Limb(a, i) # Limb(b, i)}
    IN  IF diff = {} THEN 0
        ELSE LET top == CHOOSE i \in diff : \A k \in diff : k <= i
             IN  IF Limb(a, top) < Limb(b, top) THEN -1 ELSE 1

\* the comparison of two integers, each operand evaluated once
BigCmp(x, y) == CHOOSE c \in {CmpLimbs(a, b) : a \in {x}, b \in {y}} : TRUE

BigGT(x, y) == BigCmp(x, y) = 1
BigGE(x, y) == BigCmp(x, y) >= 0

RECURSIVE MulSmallFrom(_, _, _, _)
MulSmallFrom(x, k, i, carry) ==
    IF i > Len(x) THEN <<carry>>
    ELSE LET p == x[i] * k + carry
         IN  <<p % Base>> \o MulSmallFrom(x, k, i + 1, p \div Base)

\* k * x for a small k; one limb longer than x
BigMulSmall(k, x) == MulSmallFrom(x, k, 1, 0)

\* src/spendersentry.py:42
INFINITE_THRESHOLD == [i \in 1..NLimbs |-> IF i = NLimbs THEN 2 ^ (LimbBits - 1) ELSE 0]
\* 2^255 - 1
BigBelowInf == [i \in 1..NLimbs |-> IF i = NLimbs THEN 2 ^ (LimbBits - 1) - 1 ELSE Base - 1]

\* int.from_bytes(data, byteorder="big") of at most 32 bytes
ByteFromEnd(data, p) == IF p <= Len(data) THEN data[Len(data) - p + 1] ELSE 0
FromBytesBig(data) ==
    [i \in 1..NLimbs |-> ByteFromEnd(data, 2 * i - 1) + 256 * ByteFromEnd(data, 2 * i)]

-----------------------------------------------------------------------------
(* Addresses.  EIP-55 checksumming needs keccak; it is modelled as the table *)
(* of the addresses of the model: cs is the checksummed text, hex the 40     *)
(* lower-case hex digits.                                                    *)

AddrTable == {
    [cs |-> "0xE592427A0AEce92De3Edee1F18E0157C05861564",
     hex |-> "e592427a0aece92de3edee1f18e0157c05861564"],
    [cs |-> "0x000000000000000000000000000000000000dEaD",
     hex |-> "000000000000000000000000000000000000dead"],
    [cs |-> "0xA0b86991c6218b36c1d19D4a2e9Eb0cE3606eB48",
     hex |-> "a0b86991c6218b36c1d19d4a2e9eb0ce3606eb48"],
    [cs |-> "0x6B175474E89094C44Da98b954EedeAC495271d0F",
     hex |-> "6b175474e89094c44da98b954eedeac495271d0f"],
    [cs |-> "0xd8dA6BF26964aF9D7eEd9e03E53415D37aA96045",
     hex |-> "d8da6bf26964af9d7eed9e03e53415d37aa96045"],
    [cs |-> "0xAb5801a7D398351b8bE11C439e05C5B3259aeC9B",
     hex |-> "ab5801a7d398351b8be11c439e05c5b3259aec9b"] }

to_checksum_address(a) ==
    (CHOOSE r \in AddrTable : a \in {r.cs, "0x" \o r.hex}).cs
\* a[2:].lower()
HexLower(a) == (CHOOSE r \in AddrTable : a \in {r.cs, "0x" \o r.hex}).hex

SafeListed   == "0xE592427A0AEce92De3Edee1F18E0157C05861564"
Unlisted     == "0x000000000000000000000000000000000000dEaD"
TokenA       == "0xA0b86991c6218b36c1d19D4a2e9Eb0cE3606eB48"
TokenB       == "0x6B175474E89094C44Da98b954EedeAC495271d0F"
Owner        == "0xd8dA6BF26964aF9D7eEd9e03E53415D37aA96045"
OtherOwner   == "0xAb5801a7D398351b8bE11C439e05C5B3259aeC9B"

Tokens   == {TokenA, TokenB}
Spenders == {SafeListed, Unlisted}

\* src/spendersentry.py:31-40
SAFE_SPENDERS_ETH ==
    ("0xE592427A0AEce92De3Edee1F18E0157C05861564" :> "Uniswap V3 SwapRouter") @@
    ("0x68b3465833fb72A70ecDF485E0e4C7bD8665Fc45" :> "Uniswap V3 SwapRouter02") @@
    ("0x7a250d5630B4cF539739dF2C5dAcb4c659F2488D" :> "Uniswap V2 Router") @@
    ("0x1111111254EEB25477B68fb85Ed929f73A960582" :> "1inch Aggregation Router") @@
    ("0xDef1C0ded9bec7F1a1670819833240f027b25EfF" :> "0x Exchange Proxy")

-----------------------------------------------------------------------------
(* chunk_ranges, src/spendersentry.py:91-95 *)

\* the range yielded at cur (line 94) with an upper end one block too far
ChunkAtOverlap(c, end, step) == <<c, Min(end, c + step)>>
\* line 94: yield cur, min(end, cur + step - 1)
ChunkAt(c, end, step) == <<c, Min(end, c + step - 1)>>

\* line 95 advancing one block too far
ChunkAdvanceGap(c, step) == c + step + 1
\* line 95: cur += step
ChunkAdvance(c, step) == c + step

-----------------------------------------------------------------------------
(* calc_risk, src/spendersentry.py:97-108 *)

\* calc_risk with >= in place of > in the 10x test
calc_risk_ge(allowance_raw, balance_raw, spender) ==
    LET is_infinite == BigGE(allowance_raw, INFINITE_THRESHOLD)
        in_allow    == spender \in DOMAIN SAFE_SPENDERS_ETH
    IN  IF (is_infinite /\ ~in_allow)
           \/ (BigGT(balance_raw, BigZero)
               /\ BigGE(allowance_raw, BigMulSmall(10, balance_raw))
               /\ ~in_allow)
        THEN 3
        ELSE IF (BigGT(allowance_raw, balance_raw) /\ ~in_allow)
                \/ (is_infinite /\ in_allow)
        THEN 2
        ELSE 1

calc_risk(allowance_raw, balance_raw, spender) ==
    LET is_infinite == BigGE(allowance_raw, INFINITE_THRESHOLD)
        in_allow    == spender \in DOMAIN SAFE_SPENDERS_ETH
    IN  IF (is_infinite /\ ~in_allow)
           \/ (BigGT(balance_raw, BigZero)
               /\ BigGT(allowance_raw, BigMulSmall(10, balance_raw))
               /\ ~in_allow)
        THEN 3
        ELSE IF (BigGT(allowance_raw, balance_raw) /\ ~in_allow)
                \/ (is_infinite /\ in_allow)
        THEN 2
        ELSE 1

-----------------------------------------------------------------------------
(* Values of the variables a specification does not use *)

NoArgs == [from_block |-> None, to_block |-> None, step |-> 1]
NoGen  == [start |-> 0, end |-> 0, step |-> 1, cur |-> 0, out |-> <<>>]
NoRisk == [allowance_raw |-> BigZero, balance_raw |-> BigZero,
           spender |-> Unlisted, out |-> 0]
NoOut  == [table |-> None, json |-> None]

ScanIdle ==
    /\ latest = 0 /\ start = 0 /\ cur = 0 /\ pairs = <<>> /\ queries = <<>>
ReportIdle ==
    /\ meta = <<>> /\ rows = <<>> /\ idx = 0 /\ calls = <<>>

-----------------------------------------------------------------------------
(* A chunk_ranges generator on its own, src/spendersentry.py:91-95 *)

\* line 92: cur = start
GenInit ==
    /\ pc = "gen"
    /\ \E s \in 0..MaxEnd, e \in 0..MaxEnd, st \in 1..MaxEnd :
          gen = [start |-> s, end |-> e, step |-> st, cur |-> s, out |-> <<>>]
    /\ args = NoArgs /\ chain = <<>> /\ ScanIdle /\ main_pairs = None
    /\ ReportIdle /\ out = NoOut /\ risk_io = NoRisk

\* lines 93-95: one turn of the while loop
GenYield ==
    /\ pc = "gen"
    /\ gen.cur <= gen.end
    /\ gen' = [gen EXCEPT !.out = Append(@, ChunkAt(gen.cur, gen.end, gen.step)),
                          !.cur = ChunkAdvance(gen.cur, gen.step)]
    /\ UNCHANGED <<pc, args, chain, scanVars, main_pairs, reportVars, out, risk_io>>

\* line 93: the loop condition fails, the generator is exhausted
GenStop ==
    /\ pc = "gen"
    /\ ~(gen.cur <= gen.end)
    /\ pc' = "gen_done"
    /\ UNCHANGED <<args, chain, scanVars, main_pairs, reportVars, out, gen, risk_io>>

GenNext == GenYield \/ GenStop

SpecChunk == GenInit /\ [][GenNext]_vars

-----------------------------------------------------------------------------
(* A calc_risk call on its own, src/spendersentry.py:97-108 *)

RiskValues ==
    {BigOf(0), BigOf(1), BigOf(50), BigOf(100), BigOf(150), BigOf(1000),
     BigOf(1001), BigOf(1100), BigBelowInf, INFINITE_THRESHOLD, BigMax}

\* checksummed listed, unlisted, and a listed router written in lower case
RiskSpenders ==
    {SafeListed, "0xDef1C0ded9bec7F1a1670819833240f027b25EfF", Unlisted,
     "0xe592427a0aece92de3edee1f18e0157c05861564"}

RiskInit ==
    /\ pc = "risk"
    /\ \E a \in RiskValues, b \in RiskValues, s \in RiskSpenders :
          risk_io = [allowance_raw |-> a, balance_raw |-> b, spender |-> s, out |-> 0]
    /\ args = NoArgs /\ chain = <<>> /\ ScanIdle /\ main_pairs = None
    /\ ReportIdle /\ out = NoOut /\ gen = NoGen

RiskCall ==
    /\ pc = "risk"
    /\ risk_io' = [risk_io EXCEPT !.out =
                      calc_risk(risk_io.allowance_raw, risk_io.balance_raw,
                                risk_io.spender)]
    /\ pc' = "risk_done"
    /\ UNCHANGED <<args, chain, scanVars, main_pairs, reportVars, out, gen>>

RiskNext == RiskCall

SpecRisk == RiskInit /\ [][RiskNext]_vars

-----------------------------------------------------------------------------
(* The node's logs *)

\* src/spendersentry.py:18
SIG_APPROVAL == "keccak(Approval(address,address,uint256))"

\* an indexed address topic: 24 zero hex digits, then the 40 digits of the
\* address; topic[-40:] is its second part
ZeroPad24 == "000000000000000000000000"
AddressTopic(a) == <<ZeroPad24, HexLower(a)>>

\* the 32-byte data word of the i-th log of the chain: the value 256 + i,
\* different for every log so that it tells which event a stored value is from
DataOf(i) == [k \in 1..32 |-> IF k = 32 THEN i ELSE IF k = 31 THEN 1 ELSE 0]

\* what a log can be: an approval of the owner for any (token, spender) at
\* any block, or an approval another account gave
LogShapes ==
    [blockNumber : 0..MaxBlock, token : Tokens, owner : {Owner}, spender : Spenders]
    \cup [blockNumber : 0..MaxBlock, token : {TokenA}, owner : {OtherOwner},
          spender : {Unlisted}]

MakeLog(sh, i) ==
    [blockNumber |-> sh.blockNumber,
     address     |-> "0x" \o HexLower(sh.token),
     topics      |-> <<SIG_APPROVAL, AddressTopic(sh.owner), AddressTopic(sh.spender)>>,
     data        |-> DataOf(i)]

\* the chains of exactly k logs of the given shapes, in non-decreasing block
\* order
RECURSIVE ChainsOfLen(_, _)
ChainsOfLen(shapes, k) ==
    IF k = 0 THEN {<<>>}
    ELSE { Append(c, MakeLog(sh, k)) :
             <<c, sh>> \in { x \in ChainsOfLen(shapes, k - 1) \X shapes :
                               x[1] = <<>> \/
                               x[1][Len(x[1])].blockNumber <= x[2].blockNumber } }

\* the chains of at most n logs
Chains(shapes, n) == UNION { ChainsOfLen(shapes, k) : k \in 0..n }

ScanChains == Chains(LogShapes, MaxLogs)

\* the chains a whole run of main is checked on: the owner's approvals for
\* one token and either spender, and approvals of another account
MainShapes == {sh \in LogShapes : sh.token = TokenA}
MainChains == Chains(MainShapes, MaxMainLogs)

\* the node's head block, w3.eth.block_number
BlockNumber == MaxBlock

\* the answer of eth_getLogs: the logs of the block range that match the topics
get_logs(filt) ==
    SelectSeq(chain, LAMBDA lg :
        /\ filt.fromBlock <= lg.blockNumber
        /\ lg.blockNumber <= filt.toBlock
        /\ lg.topics[1] = filt.topics[1]
        /\ lg.topics[2] = filt.topics[2])

-----------------------------------------------------------------------------
(* scan_approvals, src/spendersentry.py:110-140 *)

\* an insertion-ordered dict as a sequence of [key, val]
DictKeys(d) == {d[i].key : i \in 1..Len(d)}
DictGet(d, k) == d[CHOOSE i \in 1..Len(d) : d[i].key = k].val
\* d[k] = v: an existing key keeps its place
DictSet(d, k, v) ==
    IF k \in DictKeys(d)
    THEN [i \in 1..Len(d) |-> IF d[i].key = k THEN [key |-> k, val |-> v] ELSE d[i]]
    ELSE Append(d, [key |-> k, val |-> v])

\* lines 135-139 keeping the first value seen for a key
AbsorbLogFirstWins(d, lg) ==
    LET token   == to_checksum_address(lg.address)
        spender == to_checksum_address("0x" \o lg.topics[3][2])
        raw     == FromBytesBig(lg.data)
    IN  IF <<token, spender>> \in DictKeys(d) THEN d
        ELSE DictSet(d, <<token, spender>>, raw)

\* lines 135-139: the body of the loop over the logs of one chunk
AbsorbLog(d, lg) ==
    LET token   == to_checksum_address(lg.address)
        spender == to_checksum_address("0x" \o lg.topics[3][2])
        raw     == FromBytesBig(lg.data)
    IN  DictSet(d, <<token, spender>>, raw)

\* lines 134-139: for lg in logs
RECURSIVE AbsorbLogs(_, _)
AbsorbLogs(d, logs) ==
    IF logs = <<>> THEN d
    ELSE AbsorbLogs(AbsorbLog(d, Head(logs)), Tail(logs))

\* lines 128-132
Filter(a, b) ==
    [fromBlock |-> a, toBlock |-> b,
     topics |-> <<SIG_APPROVAL, AddressTopic(Owner)>>]

\* line 121, default window of the scan
DefaultWindow == 200000

\* lines 120-125
ScanEnter ==
    /\ pc = "scan_enter"
    /\ LET lat == IF args.to_block = None THEN BlockNumber ELSE args.to_block[1]
           st  == IF args.from_block = None THEN lat - DefaultWindow
                  ELSE args.from_block[1]
       IN  /\ latest' = lat
           /\ start' = Max(st, 0)
           /\ cur' = Max(st, 0)
    /\ pairs' = <<>>
    /\ pc' = "scan_loop"
    /\ UNCHANGED <<args, chain, queries, main_pairs, reportVars, out, gen, risk_io>>

\* lines 127-139: one chunk whose eth_getLogs call answers
ScanChunk ==
    /\ pc = "scan_loop"
    /\ cur <= latest
    /\ LET ab == ChunkAt(cur, latest, args.step)
       IN  /\ queries' = Append(queries, [a |-> ab[1], b |-> ab[2], ok |-> TRUE])
           /\ pairs' = AbsorbLogs(pairs, get_logs(Filter(ab[1], ab[2])))
    /\ cur' = ChunkAdvance(cur, args.step)
    /\ UNCHANGED <<pc, args, chain, latest, start, main_pairs, reportVars, out,
                   gen, risk_io>>

\* a failed eth_getLogs call that is swallowed: the loop goes on
ScanFailSwallowed ==
    /\ pc = "scan_loop"
    /\ cur <= latest
    /\ LET ab == ChunkAt(cur, latest, args.step)
       IN  queries' = Append(queries, [a |-> ab[1], b |-> ab[2], ok |-> FALSE])
    /\ cur' = ChunkAdvance(cur, args.step)
    /\ UNCHANGED <<pc, args, chain, latest, start, pairs, main_pairs, reportVars,
                   out, gen, risk_io>>

\* line 133 raising: nothing in scan_approvals or main catches the exception,
\* the process ends with the traceback
ScanFail ==
    /\ pc = "scan_loop"
    /\ cur <= latest
    /\ LET ab == ChunkAt(cur, latest, args.step)
       IN  queries' = Append(queries, [a |-> ab[1], b |-> ab[2], ok |-> FALSE])
    /\ pc' = "aborted"
    /\ UNCHANGED <<args, chain, latest, start, cur, pairs, main_pairs, reportVars,
                   out, gen, risk_io>>

\* line 140, and the assignment of main's line 205
ScanReturn ==
    /\ pc = "scan_loop"
    /\ ~(cur <= latest)
    /\ main_pairs' = Some(pairs)
    /\ pc' = "scanned"
    /\ UNCHANGED <<args, chain, scanVars, reportVars, out, gen, risk_io>>

ScanNext == ScanEnter \/ ScanChunk \/ ScanFail \/ ScanReturn

ArgSets ==
    [from_block : {None} \cup {Some(b) : b \in 0..MaxBlock},
     to_block   : {None} \cup {Some(b) : b \in 0..MaxBlock},
     step       : 1..MaxStep]

\* scan_approvals called on any chain of at most MaxLogs logs
ScanInit ==
    /\ pc = "scan_enter"
    /\ args \in ArgSets
    /\ chain \in ScanChains
    /\ ScanIdle /\ main_pairs = None /\ ReportIdle
    /\ out = NoOut /\ gen = NoGen /\ risk_io = NoRisk

SpecScan == ScanInit /\ [][ScanNext]_vars

-----------------------------------------------------------------------------
(* The node's answers to eth_call *)

\* what the token contracts of the model answer when a call succeeds
SymbolOf(token)   == IF token = TokenA THEN "USDC" ELSE "DAI"
DecimalsOf(token) == IF token = TokenA THEN 6 ELSE 18
\* the live allowances and balances a successful call can return
AllowanceAnswers == {BigOf(150), BigMax}
BalanceAnswers   == {BigOf(100)}

\* one eth_call and its answer: ret is the decoded return value in a
\* one-element sequence, or <<>> when the call failed
Call(fn, token, spender, ok, v) ==
    [fn |-> fn, token |-> token, spender |-> spender, ok |-> ok,
     ret |-> IF ok THEN <<v>> ELSE <<>>]

-----------------------------------------------------------------------------
(* human_amount, src/spendersentry.py:57-62.  The text is kept as what     *)
(* determines it: the integer alone when decimals <= 0, else the integer   *)
(* and the number of decimals it is scaled by; the float formatting itself *)
(* is not modelled.                                                        *)
human_amount(value, decimals) ==
    IF decimals <= 0 THEN <<"int", value, 0>> ELSE <<"scaled", value, decimals>>

-----------------------------------------------------------------------------
(* get_token_meta, src/spendersentry.py:64-75 *)

\* get_token_meta falling back to ("UNKNOWN", 18) as soon as one call fails
get_token_meta_both(symCall, decCall) ==
    IF symCall.ok /\ decCall.ok THEN <<symCall.ret[1], decCall.ret[1]>>
    ELSE <<"UNKNOWN", 18>>

\* the two calls fail or answer independently, each with its own default
get_token_meta(symCall, decCall) ==
    <<IF symCall.ok THEN symCall.ret[1] ELSE "UNKNOWN",
      IF decCall.ok THEN decCall.ret[1] ELSE 18>>

(* get_allowance_balance, src/spendersentry.py:77-89 *)

\* get_allowance_balance giving up on the balance when the allowance failed
get_allowance_balance_coupled(allowCall, balCall) ==
    IF allowCall.ok
    THEN <<allowCall.ret[1], IF balCall.ok THEN balCall.ret[1] ELSE BigZero>>
    ELSE <<BigZero, BigZero>>

get_allowance_balance(allowCall, balCall) ==
    <<IF allowCall.ok THEN allowCall.ret[1] ELSE BigZero,
      IF balCall.ok THEN balCall.ret[1] ELSE BigZero>>

-----------------------------------------------------------------------------
(* build_report, src/spendersentry.py:142-164 *)

\* lines 149-161 with the value recorded from the logs taken as the allowance
MakeRowTrustsLog(token, spender, raw, tm, ab) ==
    [token |-> token, symbol |-> tm[1], decimals |-> tm[2],
     spender |-> spender,
     spender_tag |-> IF spender \in DOMAIN SAFE_SPENDERS_ETH
                     THEN SAFE_SPENDERS_ETH[spender] ELSE "",
     allowance |-> human_amount(raw, tm[2]), allowance_raw |-> raw,
     balance |-> human_amount(ab[2], tm[2]), balance_raw |-> ab[2],
     risk |-> calc_risk(raw, ab[2], spender)]

\* lines 149-161: the row of one pair from the cached metadata tm and the
\* live values ab; raw, the value recorded from the logs, is not read
MakeRow(token, spender, raw, tm, ab) ==
    [token |-> token, symbol |-> tm[1], decimals |-> tm[2],
     spender |-> spender,
     spender_tag |-> IF spender \in DOMAIN SAFE_SPENDERS_ETH
                     THEN SAFE_SPENDERS_ETH[spender] ELSE "",
     allowance |-> human_amount(ab[1], tm[2]), allowance_raw |-> ab[1],
     balance |-> human_amount(ab[2], tm[2]), balance_raw |-> ab[2],
     risk |-> calc_risk(ab[1], ab[2], spender)]

\* line 163: key(r) <= key(s) for the key (-r.risk, -r.allowance_raw)
KeyLE(r, s) ==
    \/ r.risk > s.risk
    \/ r.risk = s.risk /\ BigGE(r.allowance_raw, s.allowance_raw)

\* line 163: key(r) < key(s)
KeyLT(r, s) == ~KeyLE(s, r)

\* list.sort is stable: the row at position i of rs comes after the rows of
\* smaller key and after the rows of equal key that stood before it
SortedPosition(rs, i) ==
    1 + Cardinality({ j \in 1..Len(rs) :
                        \/ KeyLT(rs[j], rs[i])
                        \/ j < i /\ KeyLE(rs[j], rs[i]) })

\* line 163 sorting by the risk alone
SortRowsByRiskOnly(rs) ==
    [p \in 1..Len(rs) |->
        rs[CHOOSE i \in 1..Len(rs) :
              p = 1 + Cardinality({ j \in 1..Len(rs) :
                                      \/ rs[j].risk > rs[i].risk
                                      \/ j < i /\ rs[j].risk = rs[i].risk })]]

\* line 163: rows.sort(key=lambda r: (-r.risk, -r.allowance_raw))
SortRows(rs) ==
    [p \in 1..Len(rs) |-> rs[CHOOSE i \in 1..Len(rs) : SortedPosition(rs, i) = p]]

\* the pairs build_report is given
BP == main_pairs[1]

\* lines 144-145
BuildEnter ==
    /\ pc = "build_enter"
    /\ meta' = <<>>
    /\ rows' = <<>>
    /\ idx' = 1
    /\ pc' = "build_loop"
    /\ UNCHANGED <<args, chain, scanVars, main_pairs, calls, out, gen, risk_io>>

\* line 147 never finding the token in the cache
MetaMissAlways(token) == TRUE
\* line 147: if token not in meta
MetaMiss(token) == token \notin DictKeys(meta)

\* the answers the node can give to the two metadata calls of a token
MetaCalls(token) ==
    { <<Call("symbol", token, "", sok, SymbolOf(token)),
        Call("decimals", token, "", dok, DecimalsOf(token))>> :
      sok \in BOOLEAN, dok \in BOOLEAN }

\* the answers the node can give to the two live-value calls of a pair
LiveCalls(token, spender) ==
    ({ Call("allowance", token, spender, TRUE, v) : v \in AllowanceAnswers }
        \cup { Call("allowance", token, spender, FALSE, BigZero) })
    \X
    ({ Call("balanceOf", token, "", TRUE, v) : v \in BalanceAnswers }
        \cup { Call("balanceOf", token, "", FALSE, BigZero) })

\* lines 149-161 and the append: the rest of the turn once meta holds the token
AppendRow(metaNow, lc) ==
    LET token   == BP[idx].key[1]
        spender == BP[idx].key[2]
        raw     == BP[idx].val
    IN  rows' = Append(rows,
                   MakeRow(token, spender, raw, DictGet(metaNow, token),
                           get_allowance_balance(lc[1], lc[2])))

\* lines 146-161: one turn of the for loop for a token that is not cached,
\* the metadata fetched first (lines 147-148)
BuildRowFetchMeta ==
    /\ pc = "build_loop"
    /\ idx <= Len(BP)
    /\ MetaMiss(BP[idx].key[1])
    /\ \E mc \in MetaCalls(BP[idx].key[1]),
          lc \in LiveCalls(BP[idx].key[1], BP[idx].key[2]) :
          /\ meta' = DictSet(meta, BP[idx].key[1], get_token_meta(mc[1], mc[2]))
          /\ calls' = calls \o <<mc[1], mc[2], lc[1], lc[2]>>
          /\ AppendRow(meta', lc)
    /\ idx' = idx + 1
    /\ UNCHANGED <<pc, args, chain, scanVars, main_pairs, out, gen, risk_io>>

\* lines 146-161: one turn of the for loop for a token that is cached
BuildRowCached ==
    /\ pc = "build_loop"
    /\ idx <= Len(BP)
    /\ ~MetaMiss(BP[idx].key[1])
    /\ \E lc \in LiveCalls(BP[idx].key[1], BP[idx].key[2]) :
          /\ calls' = calls \o <<lc[1], lc[2]>>
          /\ AppendRow(meta, lc)
    /\ meta' = meta
    /\ idx' = idx + 1
    /\ UNCHANGED <<pc, args, chain, scanVars, main_pairs, out, gen, risk_io>>

\* lines 163-164: the loop is over; sort and return
BuildSort ==
    /\ pc = "build_loop"
    /\ ~(idx <= Len(BP))
    /\ rows' = SortRows(rows)
    /\ pc' = "built"
    /\ UNCHANGED <<args, chain, scanVars, main_pairs, meta, idx, calls, out,
                   gen, risk_io>>

ReportNext == BuildEnter \/ BuildRowFetchMeta \/ BuildRowCached \/ BuildSort

\* build_report as a function of the mapping ps and of the node's answers:
\* log is the sequence of answers the node gives, in the order the calls are
\* made.  The turn of pair i fetches the metadata when no earlier pair has
\* its token (lines 147-148), so the answers it reads start after two
\* answers for each earlier pair and two for each token met before it.
build_report(ps, log) ==
    LET fresh(i)   == \A g \in 1..(i - 1) : ps[g].key[1] # ps[i].key[1]
        firstOf(i) == CHOOSE f \in 1..i : ps[f].key[1] = ps[i].key[1] /\ fresh(f)
        at(i)      == 1 + 2 * (i - 1) + 2 * Cardinality({g \in 1..(i - 1) : fresh(g)})
        live(i)    == at(i) + (IF fresh(i) THEN 2 ELSE 0)
        tm(i)      == get_token_meta(log[at(firstOf(i))], log[at(firstOf(i)) + 1])
        row(i)     == MakeRow(ps[i].key[1], ps[i].key[2], ps[i].val, tm(i),
                              get_allowance_balance(log[live(i)], log[live(i) + 1]))
    IN  IF Len(log) # 2 * Len(ps) + 2 * Cardinality({i \in 1..Len(ps) : fresh(i)})
        THEN <<"no such answers">>
        ELSE CHOOSE sorted \in
                 {SortRows(built) : built \in {[i \in 1..Len(ps) |-> row(i)]}} : TRUE

\* the mappings of at most n distinct (token, spender) keys, the i-th entry
\* holding the value 256 + i recorded from the logs
RECURSIVE PairSeqs(_)
PairSeqs(k) ==
    IF k = 0 THEN {<<>>}
    ELSE { Append(d, [key |-> key, val |-> BigOf(256 + k)]) :
             <<d, key>> \in { x \in PairSeqs(k - 1) \X (Tokens \X Spenders) :
                                x[2] \notin DictKeys(x[1]) } }

ReportInputs == UNION { PairSeqs(k) : k \in 0..MaxPairs }

\* build_report called on any mapping of at most MaxPairs pairs
ReportInit ==
    /\ pc = "build_enter"
    /\ \E d \in ReportInputs : main_pairs = Some(d)
    /\ args = NoArgs /\ chain = <<>> /\ ScanIdle /\ ReportIdle
    /\ out = NoOut /\ gen = NoGen /\ risk_io = NoRisk

SpecReport == ReportInit /\ [][ReportNext]_vars

-----------------------------------------------------------------------------
(* main, src/spendersentry.py:183-227, and print_table, lines 166-181 *)

\* line 194, default of --top
TopDefault == 50

\* rows[:n]
Take(rs, n) == SubSeq(rs, 1, Min(Len(rs), n))

\* lines 168-180: the table line of one row
TableLine(r) ==
    [mark    |-> IF r.risk >= 3 THEN "star" ELSE IF r.risk = 2 THEN "dot" ELSE "",
     sym     |-> r.symbol,
     token   |-> r.token,
     spender |-> <<r.spender, r.spender_tag>>,
     bal     |-> r.balance,
     allow   |-> <<r.allowance, BigGE(r.allowance_raw, INFINITE_THRESHOLD)>>,
     risk    |-> r.risk]

print_table(rs) == [i \in 1..Len(rs) |-> TableLine(rs[i])]

\* lines 197-203: the connection check; an unreachable node ends the run
MainConnect ==
    /\ pc = "main"
    /\ \E connected \in BOOLEAN :
          pc' = IF connected THEN "scan_enter" ELSE "exit_rpc"
    /\ UNCHANGED <<args, chain, scanVars, main_pairs, reportVars, out, gen, risk_io>>

\* lines 206-210: nothing found ends the run, else build_report is called
MainAfterScan ==
    /\ pc = "scanned"
    /\ pc' = IF main_pairs[1] = <<>> THEN "no_approvals" ELSE "build_enter"
    /\ UNCHANGED <<args, chain, scanVars, main_pairs, reportVars, out, gen, risk_io>>

\* lines 212-227: the table of the top rows, and the JSON file when --json
\* was given
MainOutput ==
    /\ pc = "built"
    /\ \E json_path \in {None, Some("report.json")} :
          out' = [table |-> Some(print_table(Take(rows, args.top))),
                  json  |-> IF json_path = None THEN None ELSE Some(rows)]
    /\ pc' = "done"
    /\ UNCHANGED <<args, chain, scanVars, main_pairs, reportVars, gen, risk_io>>

Next ==
    \/ MainConnect
    \/ ScanEnter \/ ScanChunk \/ ScanFail \/ ScanReturn
    \/ MainAfterScan
    \/ BuildEnter \/ BuildRowFetchMeta \/ BuildRowCached \/ BuildSort
    \/ MainOutput

\* the command lines of a whole run: the default block window and any step
\* (--json is read when the report is written)
MainArgSets ==
    [from_block : {None}, to_block : {None}, step : 1..MaxStep,
     top : {TopDefault}]

Init ==
    /\ pc = "main"
    /\ args \in MainArgSets
    /\ chain \in MainChains
    /\ ScanIdle /\ main_pairs = None /\ ReportIdle
    /\ out = NoOut /\ gen = NoGen /\ risk_io = NoRisk

Spec == Init /\ [][Next]_vars

-----------------------------------------------------------------------------
(* Claims about chunk_ranges and calc_risk *)

CeilDiv(n, d) == (n + d - 1) \div d

\* C1: for start <= end and step >= 1 the ranges yielded by
\* chunk_ranges(start, end, step) are in order, the first begins at start,
\* each next one begins at the previous end + 1, each holds between 1 and
\* step blocks, and once the generator is exhausted the last one ends at end
\* and there are ceil((end - start + 1) / step) of them.
C1_ChunksCoverRange ==
    (pc \in {"gen", "gen_done"} /\ gen.start <= gen.end) =>
        /\ \A i \in 1..Len(gen.out) :
              /\ gen.out[i][1] <= gen.out[i][2]
              /\ gen.out[i][2] - gen.out[i][1] + 1 <= gen.step
              /\ gen.out[i][1] = (IF i = 1 THEN gen.start ELSE gen.out[i - 1][2] + 1)
              /\ gen.out[i][2] <= gen.end
        /\ pc = "gen_done" =>
              /\ Len(gen.out) = CeilDiv(gen.end - gen.start + 1, gen.step)
              /\ gen.out[Len(gen.out)][2] = gen.end

\* a generator that is exhausted after yielding a short last chunk and at
\* least one full chunk before it
C1_Witness ==
    /\ pc = "gen_done"
    /\ Len(gen.out) >= 3
    /\ gen.step >= 2
    /\ gen.out[Len(gen.out)][2] - gen.out[Len(gen.out)][1] + 1 < gen.step

\* the risk tiers as the specification states them, on the top bit of the
\* uint256 for "infinite"
RiskRef(a, b, s) ==
    LET isInfinite  == a[NLimbs] >= 2 ^ (LimbBits - 1)
        allowlisted == s \in DOMAIN SAFE_SPENDERS_ETH
        high   == \/ isInfinite /\ ~allowlisted
                  \/ b # BigZero /\ BigCmp(a, BigMulSmall(10, b)) = 1 /\ ~allowlisted
        medium == \/ BigCmp(a, b) = 1 /\ ~allowlisted
                  \/ isInfinite /\ allowlisted
    IN  CASE high -> 3
          [] ~high /\ medium -> 2
          [] OTHER -> 1

RiskExample(a, b, s, r) ==
    (risk_io.allowance_raw = a /\ risk_io.balance_raw = b /\ risk_io.spender = s)
        => risk_io.out = r

-----------------------------------------------------------------------------
(* Claims about scan_approvals *)

\* the positions in the chain of the owner's Approval logs of the scanned range
Relevant ==
    { i \in 1..Len(chain) :
        /\ chain[i].topics[1] = SIG_APPROVAL
        /\ chain[i].topics[2] = <<ZeroPad24, HexLower(Owner)>>
        /\ start <= chain[i].blockNumber
        /\ chain[i].blockNumber <= latest }

\* the (token, spender) of the i-th log of the chain, checksummed
KeyAt(i) ==
    <<(CHOOSE r \in AddrTable : "0x" \o r.hex = chain[i].address).cs,
      (CHOOSE r \in AddrTable : r.hex = chain[i].topics[3][2]).cs>>

\* the value emitted by the i-th log of the chain
ValueAt(i) == BigOf(256 + i)

\* C2: when scan_approvals returns, the mapping has exactly one entry for
\* each (token, spender) that has an Approval log of the owner in the scanned
\* range, and the value of a key is the raw value of an event of that key
\* that no other event of the key follows at a higher block.
C2_LastApprovalWins ==
    pc = "scanned" =>
        /\ main_pairs = Some(pairs)
        /\ DictKeys(pairs) = {KeyAt(i) : i \in Relevant}
        /\ \A m, n \in 1..Len(pairs) : pairs[m].key = pairs[n].key => m = n
        /\ \A m \in 1..Len(pairs) :
              \E i \in Relevant :
                  /\ KeyAt(i) = pairs[m].key
                  /\ ValueAt(i) = pairs[m].val
                  /\ \A j \in Relevant :
                        KeyAt(j) = pairs[m].key =>
                            chain[j].blockNumber <= chain[i].blockNumber

\* the scan has returned and two events of one key at different heights have
\* collapsed into one entry
C2_Witness ==
    /\ pc = "scanned"
    /\ Len(pairs) = 1
    /\ \E i, j \in Relevant :
          /\ KeyAt(i) = KeyAt(j)
          /\ chain[i].blockNumber < chain[j].blockNumber
          /\ pairs[1].val = ValueAt(j)

AsMapping(d) == {<<d[i].key, d[i].val>> : i \in 1..Len(d)}

\* C8: when scan_approvals returns, the mapping is the one a single query
\* over [start, latest] gives, whatever the step, and every block of the
\* range lies in exactly one queried chunk and no chunk leaves the range.
C8_ChunkingIndependent ==
    pc = "scanned" =>
        /\ AsMapping(pairs) =
              AsMapping(AbsorbLogs(<<>>, get_logs(Filter(start, latest))))
        /\ \A blk \in start..latest :
              Cardinality({q \in 1..Len(queries) :
                  queries[q].a <= blk /\ blk <= queries[q].b}) = 1
        /\ \A q \in 1..Len(queries) :
              start <= queries[q].a /\ queries[q].b <= latest

\* a scan of several chunks has returned and two relevant events sit in a
\* block that ends a chunk before the last one
C8_Witness ==
    /\ pc = "scanned"
    /\ Len(queries) >= 2
    /\ \E q \in 1..(Len(queries) - 1), i, j \in Relevant :
          /\ i < j
          /\ chain[i].blockNumber = queries[q].b
          /\ chain[j].blockNumber = queries[q].b

-----------------------------------------------------------------------------
(* Claims about build_report and main *)

\* the positions in calls of the requests fn(token, spender)
CallsOf(fn, token, spender) ==
    { i \in 1..Len(calls) :
        calls[i].fn = fn /\ calls[i].token = token /\ calls[i].spender = spender }

Sorted(rs) ==
    \A i, j \in 1..Len(rs) :
        i < j => /\ rs[i].risk >= rs[j].risk
                 /\ rs[i].risk = rs[j].risk =>
                       BigCmp(rs[i].allowance_raw, rs[j].allowance_raw) >= 0

IsPermutation(a, b) ==
    /\ Len(a) = Len(b)
    /\ \E f \in [1..Len(a) -> 1..Len(a)] :
          /\ \A i, j \in 1..Len(a) : f[i] = f[j] => i = j
          /\ \A i \in 1..Len(a) : b[i] = a[f[i]]

\* C4: the step that ends build_report leaves the rows it had built, none
\* dropped and none duplicated, in an order where a row never precedes one of
\* higher risk, nor one of equal risk and larger raw allowance.
C4_SortedByRiskThenAllowance ==
    [][(pc = "build_loop" /\ pc' = "built") =>
          (Sorted(rows') /\ IsPermutation(rows, rows'))]_vars

\* build_report has returned two rows of equal risk and different allowance,
\* and the row of the second pair comes first
C4_Witness ==
    /\ pc = "built"
    /\ Len(rows) = 2
    /\ rows[1].risk = rows[2].risk
    /\ rows[1].allowance_raw # rows[2].allowance_raw
    /\ <<rows[1].token, rows[1].spender>> = BP[2].key

\* C5 as stated: a token whose symbol call failed has ("UNKNOWN", 18) in
\* every row, whether or not its decimals call succeeded.
C5_AsStated ==
    pc = "built" =>
        \A j \in 1..Len(rows) :
            (\E i \in CallsOf("symbol", rows[j].token, "") : ~calls[i].ok) =>
                (rows[j].symbol = "UNKNOWN" /\ rows[j].decimals = 18)

\* C5 as the code has it: the rows of a token carry "UNKNOWN" exactly when
\* its symbol call failed and the answered symbol otherwise, and 18 when its
\* decimals call failed and the answered decimals otherwise, each field on its
\* own; build_report returns a row for every pair whichever of them failed.
C5_IndependentDefaults ==
    pc = "built" =>
        /\ Len(rows) = Len(BP)
        /\ \A j \in 1..Len(rows) :
              /\ \A i \in CallsOf("symbol", rows[j].token, "") :
                    rows[j].symbol = (IF calls[i].ok THEN calls[i].ret[1]
                                      ELSE "UNKNOWN")
              /\ \A i \in CallsOf("decimals", rows[j].token, "") :
                    rows[j].decimals = (IF calls[i].ok THEN calls[i].ret[1]
                                        ELSE 18)
              /\ CallsOf("symbol", rows[j].token, "") # {}
              /\ CallsOf("decimals", rows[j].token, "") # {}

\* a returned row whose symbol call failed and whose decimals call answered 6
C5_Witness ==
    /\ pc = "built"
    /\ \E j \in 1..Len(rows) :
          /\ rows[j].symbol = "UNKNOWN"
          /\ rows[j].decimals = 6
          /\ \E i \in CallsOf("symbol", rows[j].token, "") : ~calls[i].ok

\* the rows of the pair (token, spender)
RowsOf(token, spender) ==
    { j \in 1..Len(rows) : rows[j].token = token /\ rows[j].spender = spender }

\* C7: whichever eth_calls fail, every turn of build_report's loop ends with
\* one more row and the loop on the next pair, and build_report returns
\* exactly one row per pair, whose allowance_raw is the answer of the pair's
\* allowance call, or 0 when it failed, and whose balance_raw is the answer
\* of the balanceOf call made right after it, or 0 when that failed.
C7_FailedCallsDefaultToZero ==
    /\ pc = "build_loop" => (idx <= Len(BP) + 1 /\ Len(rows) = idx - 1)
    /\ pc \notin {"build_enter", "build_loop", "built"} => rows = <<>>
    /\ pc = "built" =>
          /\ Len(rows) = Len(BP)
          /\ \A m \in 1..Len(BP) :
                /\ Cardinality(RowsOf(BP[m].key[1], BP[m].key[2])) = 1
                /\ \E i \in CallsOf("allowance", BP[m].key[1], BP[m].key[2]) :
                      \A j \in RowsOf(BP[m].key[1], BP[m].key[2]) :
                          /\ rows[j].allowance_raw =
                                (IF calls[i].ok THEN calls[i].ret[1] ELSE BigZero)
                          /\ calls[i + 1].fn = "balanceOf"
                          /\ calls[i + 1].token = BP[m].key[1]
                          /\ rows[j].balance_raw =
                                (IF calls[i + 1].ok THEN calls[i + 1].ret[1]
                                 ELSE BigZero)

\* build_report has returned a row whose allowance call failed and whose
\* balanceOf call answered, for a token whose two metadata calls failed
C7_Witness ==
    /\ pc = "built"
    /\ \E j \in 1..Len(rows) :
          /\ rows[j].allowance_raw = BigZero
          /\ rows[j].balance_raw = BigOf(100)
          /\ rows[j].symbol = "UNKNOWN"
          /\ \E i \in CallsOf("allowance", rows[j].token, rows[j].spender) :
                ~calls[i].ok /\ calls[i + 1].ok
          /\ \E i \in CallsOf("decimals", rows[j].token, "") : ~calls[i].ok

TokensOf(ps) == {ps[i].key[1] : i \in 1..Len(ps)}

\* C9: when build_report returns it has made one symbol and one decimals
\* call for each distinct token, one allowance call for each pair and one
\* balanceOf call for each pair, and nothing else; the rows of one token
\* carry the same symbol and decimals.
C9_MetadataFetchedOncePerToken ==
    pc = "built" =>
        /\ \A t \in TokensOf(BP) :
              /\ Cardinality(CallsOf("symbol", t, "")) = 1
              /\ Cardinality(CallsOf("decimals", t, "")) = 1
              /\ Cardinality(CallsOf("balanceOf", t, "")) =
                    Cardinality({m \in 1..Len(BP) : BP[m].key[1] = t})
        /\ \A m \in 1..Len(BP) :
              Cardinality(CallsOf("allowance", BP[m].key[1], BP[m].key[2])) = 1
        /\ Len(calls) = 2 * Cardinality(TokensOf(BP)) + 2 * Len(BP)
        /\ \A i, j \in 1..Len(rows) :
              rows[i].token = rows[j].token =>
                  /\ rows[i].symbol = rows[j].symbol
                  /\ rows[i].decimals = rows[j].decimals

\* build_report has returned the rows of two spenders of one token
C9_Witness ==
    /\ pc = "built"
    /\ Len(rows) >= 2
    /\ \E i, j \in 1..Len(rows) :
          i # j /\ rows[i].token = rows[j].token /\ rows[i].spender # rows[j].spender

\* the mapping with the keys of ps in the same order, every recorded value
\* replaced by 2^256 - 1
RawRewrite(ps) == [i \in 1..Len(ps) |-> [key |-> ps[i].key, val |-> BigMax]]

\* C10: the rows build_report returns are the rows a run over the mapping
\* with the same keys in the same order and other recorded values (2^256 - 1
\* for each) returns against the same answers of the node.
C10_RecordedValueNotUsed ==
    pc = "built" =>
        build_report(RawRewrite(BP), calls) = rows

\* build_report has returned a row whose live allowance differs from the
\* value recorded from the logs
C10_Witness ==
    /\ pc = "built"
    /\ Len(rows) >= 1
    /\ \E m \in 1..Len(BP) :
          \E j \in RowsOf(BP[m].key[1], BP[m].key[2]) :
              /\ rows[j].allowance_raw # BP[m].val
              /\ rows[j].risk = 3

\* C6: a failed eth_getLogs call is the last request of the run: the run is
\* over, scan_approvals has handed no mapping to main, no eth_call has been
\* issued, and there is no row, no table and no JSON file.
C6_FailedLogQueryAborts ==
    \A q \in 1..Len(queries) :
        ~queries[q].ok =>
            /\ q = Len(queries)
            /\ pc = "aborted"
            /\ main_pairs = None
            /\ calls = <<>>
            /\ rows = <<>>
            /\ out = NoOut

\* the run has ended on a failed chunk after an earlier chunk had collected a
\* pair, with a later chunk still to query
C6_Witness ==
    /\ pc = "aborted"
    /\ pairs # <<>>
    /\ Len(queries) >= 2
    /\ queries[Len(queries)].b < latest

====
